---- MODULE Spec2Model ----
(***************************************************************************)
(* bee2bee-indexer: the repository indexing pipeline (RepoIndexer), the    *)
(* GitHub fetcher (GitHubClient) and the multi-tenant vector store         *)
(* (ChromaStore).                                                          *)
(*                                                                         *)
(* Strings that the code takes apart or rewrites (URLs, "owner/name",      *)
(* collection names, chunk ids) are sequences of tokens, so that split,    *)
(* replace and concatenation are computed as the code computes them.       *)
(*                                                                         *)
(* Scheduling is asyncio's: one coroutine runs at a time and gives up the  *)
(* event loop only where it really suspends.  In _run_indexing_job the     *)
(* only suspension is the HTTP download of the archive fallback; the clone *)
(* (subprocess.run), _process_file, store_chunks and cleanup_temp_repo     *)
(* contain no suspending await.  `loop` names the task that holds the      *)
(* event loop (0: the loop is free, the client or a ready task may run).   *)
(* The pipeline is still modelled statement group by statement group, so   *)
(* that every intermediate job record is a state of the model.             *)
(***************************************************************************)
EXTENDS Integers, Sequences, FiniteSets, TLC

(* ------------------------------ bounds --------------------------------- *)
MaxJobs == 2
MaxFiles == 2
MaxK == 2
MaxRepos == 2
MaxRevs == 2

(* --------------------------- program constants ------------------------- *)
\* job_id="cached" of the synthetic job; real ids are uuid4 values, modelled
\* as 1, 2, ... and never equal to it.
CachedId == 0
\* store_chunks: batch_size = 50
batch_size == 50

Users == {"u1", "u2"}
DefaultBranch == <<"main">>
Branches == {<<"main">>, <<"dev">>}
Urls ==
  { <<"https:", "/", "/", "github.com", "/", "a", "/", "b">>,
    <<"https:", "/", "/", "github.com", "/", "c", "/", "d", "/">> }

\* upstream revisions of a repository
Revs == 1..MaxRevs

Min(a, b) == IF a <= b THEN a ELSE b

RECURSIVE Fact(_)
Fact(n) == IF n <= 1 THEN 1 ELSE n * Fact(n - 1)

\* progress is a float in the code; here it is an integer number of
\* 1/Scale units, Scale chosen so that (k / n) * 0.7 is exact for n <= MaxFiles.
Scale == 10 * Fact(MaxFiles)
ProgressOne == Scale

(* ----------------------------- string helpers -------------------------- *)
\* str.replace(a, b) on a token string
Replace(s, a, b) == [i \in 1..Len(s) |-> IF s[i] = a THEN b ELSE s[i]]

\* str.rstrip(c)
RECURSIVE RStrip(_, _)
RStrip(s, c) ==
  IF s # <<>> /\ s[Len(s)] = c THEN RStrip(SubSeq(s, 1, Len(s) - 1), c) ELSE s

\* str.split(c): the sequence of parts
RECURSIVE Split(_, _)
Split(s, c) ==
  IF \E i \in 1..Len(s) : s[i] = c
  THEN LET i == CHOOSE k \in 1..Len(s) : s[k] = c /\ \A m \in 1..(k - 1) : s[m] # c
       IN  <<SubSeq(s, 1, i - 1)>> \o Split(SubSeq(s, i + 1, Len(s)), c)
  ELSE <<s>>

\* RepoIndexer._parse_repo_url: (parts[-2], parts[-1])
parse_repo_url(url) ==
  LET parts == Split(RStrip(url, "/"), "/")
  IN  <<parts[Len(parts) - 1], parts[Len(parts)]>>

\* repo_full_name = f"{owner}/{repo_name}"
repo_full_name(owner, repo_name) == owner \o <<"/">> \o repo_name

Repos == {repo_full_name(parse_repo_url(u)[1], parse_repo_url(u)[2]) : u \in Urls}

\* ChromaStore._get_collection_name
get_collection_name(repo, branch) ==
  <<"github", "_">> \o Replace(repo, "/", "_") \o <<"_">> \o branch

(* ------------------------- repository snapshots ------------------------ *)
\* path of the i-th source file of a snapshot; the last token is the suffix
FilePath(i, ext) == <<"src", "/", "f", ToString(i), ext>>

\* Path.suffix
suffix(path) == path[Len(path)]

\* What the text of the first definition in file i of `repo` is, as a
\* number: the encoders are deterministic functions of the text.
FileCode(repo, i) == IF repo[1] = "a" THEN 3 * i - 2 ELSE i + 1

\* A definition node of a syntax tree: its name, its first and last row
\* (node.start_point.row, node.end_point.row) and the text it spans.
Node(name, row, end_row, code) ==
  [name |-> name, row |-> row, end_row |-> end_row, code |-> code]

\* how many definitions file i holds: the last file of a/b on dev holds one
\* more than a batch of store_chunks takes; on main the last file of a/b
\* gains a second definition from revision 2 on
NumDefs(repo, branch, rev, i) ==
  IF repo[1] = "a" /\ branch = <<"dev">> /\ i = MaxFiles THEN batch_size + 1
  ELSE IF repo[1] = "a" /\ branch = <<"main">> /\ i = MaxFiles /\ rev > 1 THEN 2
  ELSE 1

\* The content of the repositories at upstream revision rev: what
\* download_repo fetches and Path.rglob enumerates.  Every snapshot holds a
\* README.md.  a/b has MaxFiles python files; on dev the chunker raises on
\* the first one; on main the last one is edited from revision 2 on (its
\* definition keeps name and first row, with another text, and a second
\* definition follows).  c/d has MaxFiles source files on main, the first
\* one in Ruby, the last one no longer decodable as UTF-8 from revision 2
\* on; on dev it has the README only.  On branch c_d of a/b_c the files
\* after the first lie at the top level, named src_f1.py, ...
\* kind: "ok", "unreadable" (open/read raises), "raise" (extract_chunks raises).
Snapshot(repo, branch, rev) ==
  LET n == IF repo[1] = "c" /\ branch = <<"dev">> THEN 0 ELSE MaxFiles
      edited(i) == repo[1] = "a" /\ branch = <<"main">> /\ i = n /\ rev > 1
      flat(i) == Len(repo) > 3 /\ branch = <<"c", "_", "d">> /\ i > 1
      ext(i) == IF repo[1] = "c" /\ i = 1 THEN ".rb" ELSE ".py"
      source_file(i) ==
        [ path |-> IF flat(i) THEN Replace(FilePath(i - 1, ext(i)), "/", "_")
                   ELSE FilePath(i, ext(i)),
          kind |-> IF repo[1] = "a" /\ branch = <<"dev">> /\ i = 1 THEN "raise"
                   ELSE IF repo[1] = "c" /\ i = n /\ rev > 1 THEN "unreadable"
                   ELSE "ok",
          defs |-> [d \in 1..NumDefs(repo, branch, rev, i) |->
                      Node(<<"f">>, d,
                           IF edited(i) THEN d + 1 ELSE d,
                           IF edited(i) THEN FileCode(repo, i) + 3 + d
                           ELSE FileCode(repo, i) + d - 1)] ]
  IN  <<[path |-> <<"README", ".md">>, kind |-> "ok", defs |-> <<>>]>>
      \o [i \in 1..n |-> source_file(i)]

\* RepoIndexer._is_code_file: code_extensions
code_extensions ==
  {".py", ".js", ".ts", ".tsx", ".jsx", ".rs", ".go", ".java", ".cpp", ".c", ".h",
   ".rb", ".php", ".swift", ".kt", ".scala"}

\* RepoIndexer._is_code_file (the snapshots list regular files only)
is_code_file(file) == suffix(file.path) \in code_extensions

get_language_python(file_extension) == "python"

\* TreeSitterParser.get_language: ext_to_lang.get(file_extension, UNKNOWN)
get_language(file_extension) ==
  CASE file_extension = ".py" -> "python"
    [] file_extension \in {".js", ".jsx"} -> "javascript"
    [] file_extension \in {".ts", ".tsx"} -> "typescript"
    [] file_extension = ".rs" -> "rust"
    [] file_extension = ".go" -> "go"
    [] file_extension = ".java" -> "java"
    [] file_extension \in {".cpp", ".cc", ".cxx", ".hpp"} -> "cpp"
    [] file_extension \in {".c", ".h"} -> "c"
    [] OTHER -> "unknown"

\* TreeSitterParser.parse: <<>> is None; the tree is given by the
\* definition nodes it holds (every language of ext_to_lang has a grammar)
parse(content, file_extension) ==
  IF get_language(file_extension) = "unknown" THEN <<>> ELSE <<content>>

\* FunctionChunker._node_to_chunk: chunk id
chunk_id(repo, file_path, name, row) ==
  Replace(Replace(repo \o <<"_">> \o file_path \o <<"_">> \o name \o <<"_", ToString(row)>>,
                  "/", "_"), " ", "_")

node_to_chunk_id_of_text(node, repo, file_path, language) ==
  [ id         |-> chunk_id(repo, file_path, node.name, node.row) \o <<"_", ToString(node.code)>>,
    code       |-> node.code,
    repo       |-> repo,
    file_path  |-> file_path,
    language   |-> language,
    name       |-> node.name,
    start_line |-> node.row,
    end_line   |-> node.end_row ]

\* FunctionChunker._node_to_chunk
node_to_chunk(node, repo, file_path, language) ==
  [ id         |-> chunk_id(repo, file_path, node.name, node.row),
    code       |-> node.code,
    repo       |-> repo,
    file_path  |-> file_path,
    language   |-> language,
    name       |-> node.name,
    start_line |-> node.row,
    end_line   |-> node.end_row ]

\* FunctionChunker.extract_chunks: one chunk per definition node
extract_chunks(tree, repo, file_path, language) ==
  [d \in 1..Len(tree) |-> node_to_chunk(tree[d], repo, file_path, language)]

\* RepoIndexer._process_file: the chunks it returns, or that it raised
process_file(repo, file) ==
  IF file.kind = "unreadable" THEN [raised |-> FALSE, chunks |-> <<>>]
  ELSE LET tree == parse(file.defs, suffix(file.path))
       IN  IF tree = <<>> THEN [raised |-> FALSE, chunks |-> <<>>]
           ELSE IF file.kind = "raise" THEN [raised |-> TRUE, chunks |-> <<>>]
           ELSE [raised |-> FALSE,
                 chunks |-> extract_chunks(tree[1], repo, file.path,
                                           get_language(suffix(file.path)))]

(* ------------------------------ vector store --------------------------- *)
\* The embedding backends: DualEmbedder(provider=...)
Providers == {"local", "openai"}

\* config.embedding_provider, the backend RepoIndexer builds its embedder with
embedding_provider == "local"

\* DualEmbedder._textify: the natural-language rendering of a chunk.  What
\* it is built from (name, signature, docstring, file name) is fixed by the
\* definition's text, which stands for it.
textify(chunk) == chunk.code

\* An encoder: a deterministic function of the text, abstracted to a
\* one-dimensional vector.
encode(text) == text

\* SentenceTransformer.encode(texts): one vector per text, in order
local_encode(texts) ==
  [raised |-> FALSE, out |-> [i \in 1..Len(texts) |-> encode(texts[i])]]

\* DualEmbedder._openai_embed_batch: [item.embedding for item in response.data];
\* the embeddings endpoint answers one item per input, in order, and rejects
\* an empty input list (the client raises BadRequestError)
openai_embed_batch(texts) ==
  IF texts = <<>> THEN [raised |-> TRUE, out |-> <<>>]
  ELSE [raised |-> FALSE, out |-> [i \in 1..Len(texts) |-> encode(texts[i])]]

\* list(zip(a, b)): as long as the shorter of the two
Zip(a, b) == [i \in 1..Min(Len(a), Len(b)) |-> <<a[i], b[i]>>]

\* DualEmbedder.embed_batch: the (nlp, code) pairs, or that it raised
embed_batch(provider, chunks) ==
  LET textified == [i \in 1..Len(chunks) |-> textify(chunks[i])]
      raw_codes == [i \in 1..Len(chunks) |-> chunks[i].code]
      nlp_embeddings  == IF provider = "local" THEN local_encode(textified)
                         ELSE openai_embed_batch(textified)
      code_embeddings == IF provider = "local" THEN local_encode(raw_codes)
                         ELSE openai_embed_batch(raw_codes)
  IN  IF nlp_embeddings.raised \/ code_embeddings.raised
      THEN [raised |-> TRUE, pairs |-> <<>>]
      ELSE [raised |-> FALSE, pairs |-> Zip(nlp_embeddings.out, code_embeddings.out)]

\* collection.add(ids, embeddings=nlp_embeddings, documents, metadatas): an
\* id that is already present keeps its old entry.
collection_add(docs, batch) ==
  LET embs == embed_batch(embedding_provider, batch).pairs
      ids  == {batch[i].id : i \in 1..Len(batch)}
      first(id) == CHOOSE i \in 1..Len(batch) :
                     batch[i].id = id /\ \A m \in 1..(i - 1) : batch[m].id # id
  IN  [id \in (DOMAIN docs) \cup ids |->
         IF id \in DOMAIN docs THEN docs[id]
         ELSE [meta |-> batch[first(id)], embedding |-> embs[first(id)][1]]]

NumBatches(chunks) == (Len(chunks) + batch_size - 1) \div batch_size

Batch(chunks, b) ==
  SubSeq(chunks, (b - 1) * batch_size + 1, Min(b * batch_size, Len(chunks)))

\* the most batches one store_chunks call takes over the snapshots
MaxBatches == (MaxFiles * (batch_size + 1) + batch_size - 1) \div batch_size

\* the first nb batches of the loop of store_chunks
RECURSIVE AddBatches(_, _, _)
AddBatches(docs, chunks, nb) ==
  IF nb = 0 THEN docs
  ELSE CHOOSE added \in {collection_add(before, batch) :
                           before \in {AddBatches(docs, chunks, nb - 1)},
                           batch \in {Batch(chunks, nb)}} : TRUE

NoDocs == [id \in {} |-> 0]

\* client.get_or_create_collection(name, metadata): an existing collection is
\* returned as it is, the metadata argument is used only on creation.
get_or_create_collection(colls, name, metadata) ==
  IF name \in DOMAIN colls THEN colls
  ELSE [n \in (DOMAIN colls) \cup {name} |->
          IF n = name THEN [metadata |-> metadata, docs |-> NoDocs] ELSE colls[n]]

\* collection.add validates its ids first: a batch that names an id twice
\* is rejected (DuplicateIDError)
HasDuplicateIds(batch) ==
  \E i, m \in 1..Len(batch) : i < m /\ batch[i].id = batch[m].id

\* the batch of store_chunks that raises: the first one collection.add
\* rejects, or batch failAt when embed_batch or collection.add raises there
\* for another reason (failAt = 0: no such failure); 0 when none raises
failing_batch(chunks, failAt) ==
  LET rejected == {b \in 1..NumBatches(chunks) :
                     \E batch \in {Batch(chunks, b)} : HasDuplicateIds(batch)}
      raising  == rejected \cup (IF failAt = 0 THEN {} ELSE {failAt})
  IN  IF raising = {} THEN 0
      ELSE CHOOSE b \in raising : \A o \in raising : b <= o

\* ChromaStore.store_chunks.  failAt = 0: no batch fails for a reason of
\* the environment; failAt = b > 0: embed_batch or collection.add raises in
\* batch b.
store_chunks(colls, chunks, repo, user_id, branch, failAt) ==
  IF chunks = <<>> THEN [colls |-> colls, raised |-> FALSE]
  ELSE
    LET name == get_collection_name(repo, branch)
        c0   == get_or_create_collection(colls, name,
                  [repo |-> repo, branch |-> branch,
                   indexed_by_users |-> <<user_id>>, total_chunks |-> 0])
        fail == failing_batch(chunks, failAt)
        done == IF fail = 0 THEN NumBatches(chunks) ELSE fail - 1
        c1   == [c0 EXCEPT ![name].docs = AddBatches(@, chunks, done)]
    IN  IF fail = 0
        THEN [colls  |-> [c1 EXCEPT ![name].metadata =
                            [repo |-> repo, branch |-> branch,
                             indexed_by_users |-> <<user_id>>,
                             total_chunks |-> Len(chunks)]],
              raised |-> FALSE]
        ELSE [colls |-> c1, raised |-> TRUE]

\* ChromaStore.collection_exists
collection_exists(colls, repo, branch) ==
  get_collection_name(repo, branch) \in DOMAIN colls

InSeq(x, s) == \E i \in 1..Len(s) : s[i] = x

add_user_to_repo_always_appends(colls, repo, user_id, branch) ==
  LET name == get_collection_name(repo, branch)
  IN  IF name \notin DOMAIN colls THEN colls
      ELSE [colls EXCEPT ![name].metadata.indexed_by_users = Append(@, user_id)]

\* ChromaStore.add_user_to_repo
add_user_to_repo(colls, repo, user_id, branch) ==
  LET name == get_collection_name(repo, branch)
  IN  IF name \notin DOMAIN colls THEN colls
      ELSE IF InSeq(user_id, colls[name].metadata.indexed_by_users) THEN colls
      ELSE [colls EXCEPT ![name].metadata.indexed_by_users = Append(@, user_id)]

\* ChromaStore.get_chunk_count
get_chunk_count(colls, repo, branch) ==
  LET name == get_collection_name(repo, branch)
  IN  IF name \in DOMAIN colls THEN colls[name].metadata.total_chunks ELSE 0

(* --------------------------------- search ------------------------------ *)
\* DualEmbedder.embed_query, NLP side: queries are named by their vector.
embed_query(query) == query

Queries == {3}

\* ChromaDB's default distance: squared L2
Distance(x, y) == (x - y) * (x - y)

\* collection.query(query_embeddings=[q], n_results=k): the ids of the k
\* nearest entries, nearest first (fewer when the collection holds fewer)
RECURSIVE Nearest(_, _, _, _)
Nearest(docs, ids, q, k) ==
  IF k = 0 \/ ids = {} THEN <<>>
  ELSE LET best == CHOOSE id \in ids :
                     \A o \in ids : Distance(q, docs[id].embedding)
                                      <= Distance(q, docs[o].embedding)
       IN  <<best>> \o Nearest(docs, ids \ {best}, q, k - 1)

\* score = 1.0 / (1.0 + dist), kept as a fraction
Score(dist) == [num |-> 1, den |-> 1 + dist]

ScoreGE(a, b) == a.num * b.den >= b.num * a.den

\* the SearchResult built from one row of the query's answer; `source` is
\* the name of the collection the row was read from
SearchResult(repo, name, entry, q) ==
  LET dist == Distance(q, entry.embedding)
  IN  [ chunk    |-> entry.meta,
        score    |-> Score(dist),
        distance |-> dist,
        file_url |-> <<"https:", "/", "/", "github.com", "/">> \o repo
                     \o <<"/", "blob", "/", "main", "/">> \o entry.meta.file_path
                     \o <<"#L", ToString(entry.meta.start_line)>>,
        source   |-> name ]

\* all_results.sort(key=lambda x: x.score, reverse=True): stable, so equal
\* scores keep their order of arrival
SortInsert(sorted, x) ==
  LET n == Cardinality({i \in 1..Len(sorted) : ScoreGE(sorted[i].score, x.score)})
  IN  SubSeq(sorted, 1, n) \o <<x>> \o SubSeq(sorted, n + 1, Len(sorted))

SortByScore_unsorted(s) == s

RECURSIVE SortByScore(_)
SortByScore(s) ==
  IF s = <<>> THEN <<>>
  ELSE SortInsert(SortByScore(SubSeq(s, 1, Len(s) - 1)), s[Len(s)])

user_has_access_any(colls, name, user_id) ==
  colls[name].metadata.indexed_by_users # <<>>

\* search: user_id in metadata.get("indexed_by_users", [])
user_has_access(colls, name, user_id) ==
  InSeq(user_id, colls[name].metadata.indexed_by_users)

on_missing_raise(head) == [raised |-> TRUE, rows |-> <<>>]

\* search: get_collection raised, the except clause continues with the next repo
on_missing(head) == head

on_denied_raise(head) == [raised |-> TRUE, rows |-> <<>>]

\* search: the user is not in indexed_by_users: continue with the next repo
on_denied(head) == head

\* the loop of ChromaStore.search over repos: the rows gathered, and
\* whether collection.query raised (it does for n_results <= 0)
RECURSIVE search_loop(_, _, _, _, _)
search_loop(colls, q, repos, user_id, n_results) ==
  IF repos = <<>> THEN [raised |-> FALSE, rows |-> <<>>]
  ELSE
    LET repo == repos[Len(repos)]
        head == search_loop(colls, q, SubSeq(repos, 1, Len(repos) - 1), user_id, n_results)
        name == get_collection_name(repo, DefaultBranch)
    IN  IF head.raised THEN head
        ELSE IF name \notin DOMAIN colls THEN on_missing(head)
        ELSE IF ~user_has_access(colls, name, user_id) THEN on_denied(head)
        ELSE IF n_results <= 0 THEN [raised |-> TRUE, rows |-> <<>>]
        ELSE LET docs == colls[name].docs
                 near == Nearest(docs, DOMAIN docs, q, n_results)
             IN  [raised |-> FALSE,
                  rows   |-> head.rows \o
                             [i \in 1..Len(near) |-> SearchResult(repo, name, docs[near[i]], q)]]

\* ChromaStore.search (RepoIndexer.search passes its arguments through)
search(colls, query, repos, user_id, n_results) ==
  LET q   == embed_query(query)
      all == search_loop(colls, q, repos, user_id, n_results)
  IN  IF all.raised THEN [raised |-> TRUE, results |-> <<>>]
      ELSE LET sorted == SortByScore(all.rows)
           IN  [raised  |-> FALSE,
                results |-> SubSeq(sorted, 1, Min(n_results, Len(sorted)))]

RepoLists == UNION {[1..n -> Repos] : n \in 0..MaxRepos}

(* -------------------------------- state -------------------------------- *)
VARIABLES
  active_jobs,   \* RepoIndexer.active_jobs: job id -> IndexingJob
  tasks,         \* job id -> the locals and position of its background task
  collections,   \* the ChromaDB client: collection name -> metadata and docs
  temp_dirs,     \* job ids whose mkdtemp directory is on disk
  loop,          \* the task holding the event loop, 0 when it is free
  ret            \* what the API call just made returned, until the caller takes it

vars == <<active_jobs, tasks, collections, temp_dirs, loop, ret>>

NoRet == [op |-> "none"]

JobIds == 1..MaxJobs

NoColls == [n \in {} |-> 0]

Init ==
  /\ active_jobs = [j \in {} |-> 0]
  /\ tasks = [j \in {} |-> 0]
  /\ collections = NoColls
  /\ temp_dirs = {}
  /\ loop = 0
  /\ ret = NoRet

\* A task: its position and the locals of _run_indexing_job.
NewTask(owner, repo_name, branch, user_id) ==
  [ pc |-> "created", owner |-> owner, repo_name |-> repo_name, branch |-> branch,
    user_id |-> user_id, repo_path |-> "unbound", code_files |-> <<>>, next_file |-> 1,
    all_chunks |-> <<>>, raised |-> FALSE ]

\* A finished task: its locals are gone; raised tells whether the coroutine
\* ended with an exception nobody handled.
TaskDone(raised) ==
  [ pc |-> "done", owner |-> <<>>, repo_name |-> <<>>, branch |-> <<>>,
    user_id |-> "", repo_path |-> "unbound", code_files |-> <<>>, next_file |-> 1,
    all_chunks |-> <<>>, raised |-> raised ]

\* IndexingJob(...) with the defaults of types.py
IndexingJob(job_id, repo, status, progress, chunks_indexed, triggered_by, incremental) ==
  [ job_id         |-> job_id,
    repo           |-> repo,
    status         |-> status,
    progress       |-> progress,
    chunks_indexed |-> chunks_indexed,
    files_processed |-> 0,
    errors         |-> <<>>,
    started_at     |-> "None",
    completed_at   |-> "None",
    triggered_by   |-> triggered_by,
    incremental    |-> incremental ]

\* RepoIndexer._check_existing_index: <<>> is None
check_existing_index(colls, repo, user_id) ==
  IF collection_exists(colls, repo, DefaultBranch)
  THEN LET c1 == add_user_to_repo(colls, repo, user_id, DefaultBranch)
       IN  [colls |-> c1,
            job   |-> <<IndexingJob(CachedId, repo, "completed", ProgressOne,
                                    get_chunk_count(c1, repo, DefaultBranch),
                                    user_id, FALSE)>>]
  ELSE [colls |-> colls, job |-> <<>>]

NewJobId == Cardinality(DOMAIN active_jobs) + 1

new_job_running(job_id, repo, user_id, incremental) ==
  IndexingJob(job_id, repo, "running", 0, 0, user_id, incremental)

\* index_repository: job = IndexingJob(job_id=str(uuid.uuid4()), status="pending", ...)
new_job(job_id, repo, user_id, incremental) ==
  IndexingJob(job_id, repo, "pending", 0, 0, user_id, incremental)

Extend(f, k, v) == [x \in (DOMAIN f) \cup {k} |-> IF x = k THEN v ELSE f[x]]

\* RepoIndexer.index_repository
IndexRepository(url, user_id, branch, incremental) ==
  LET pr       == parse_repo_url(url)
      repo     == repo_full_name(pr[1], pr[2])
      existing == IF incremental THEN [colls |-> collections, job |-> <<>>]
                  ELSE check_existing_index(collections, repo, user_id)
      args     == [repo |-> repo, user_id |-> user_id, branch |-> branch,
                   incremental |-> incremental]
  IN  /\ loop = 0
      /\ ret = NoRet
      /\ IF existing.job # <<>>
         THEN /\ collections' = existing.colls
              /\ ret' = [op |-> "index", args |-> args, job |-> existing.job[1]]
              /\ UNCHANGED <<active_jobs, tasks, temp_dirs, loop>>
         ELSE LET job == new_job(NewJobId, repo, user_id, incremental)
              IN  /\ NewJobId <= MaxJobs
                  /\ active_jobs' = Extend(active_jobs, job.job_id, job)
                  /\ tasks' = Extend(tasks, job.job_id,
                                      NewTask(pr[1], pr[2], branch, user_id))
                  /\ ret' = [op |-> "index", args |-> args, job |-> job]
                  /\ UNCHANGED <<collections, temp_dirs, loop>>

\* RepoIndexer.get_job_status
GetJobStatus(job_id) ==
  /\ loop = 0
  /\ ret = NoRet
  /\ ret' = [op |-> "status", job_id |-> job_id,
             result |-> IF job_id \in DOMAIN active_jobs
                        THEN <<active_jobs[job_id]>> ELSE <<>>]
  /\ UNCHANGED <<active_jobs, tasks, collections, temp_dirs, loop>>

(* ------------------------- the background task ------------------------- *)
except_handler_keeps_status(job, e) ==
  [job EXCEPT !.errors = Append(@, e), !.completed_at = "set"]

\* the except clause of _run_indexing_job
except_handler(job, e) ==
  [job EXCEPT !.status = "failed", !.errors = Append(@, e), !.completed_at = "set"]

RunStart_all(j) ==
  /\ loop = 0
  /\ ret = NoRet
  /\ j \in DOMAIN tasks
  /\ tasks[j].pc = "created"
  /\ active_jobs' = [k \in DOMAIN active_jobs |->
                       IF active_jobs[k].status = "pending"
                       THEN [active_jobs[k] EXCEPT !.status = "running", !.started_at = "set"]
                       ELSE active_jobs[k]]
  /\ tasks' = [tasks EXCEPT ![j].pc = "download"]
  /\ loop' = j
  /\ ret' = NoRet
  /\ UNCHANGED <<collections, temp_dirs>>

\* _run_indexing_job, the task's first statements: status = "running"
RunStart(j) ==
  /\ loop = 0
  /\ ret = NoRet
  /\ j \in DOMAIN tasks
  /\ tasks[j].pc = "created"
  /\ active_jobs' = [active_jobs EXCEPT ![j].status = "running", ![j].started_at = "set"]
  /\ tasks' = [tasks EXCEPT ![j].pc = "download"]
  /\ loop' = j
  /\ ret' = NoRet
  /\ UNCHANGED <<collections, temp_dirs>>

DownloadRepo_no_fallback(j, clone_ok) ==
  /\ loop = j
  /\ tasks[j].pc = "download"
  /\ temp_dirs' = temp_dirs \cup {j}
  /\ IF clone_ok
     THEN /\ tasks' = [tasks EXCEPT ![j].pc = "list", ![j].repo_path = "bound"]
          /\ loop' = j
          /\ UNCHANGED active_jobs
     ELSE /\ tasks' = [tasks EXCEPT ![j] = TaskDone(TRUE)]
          /\ active_jobs' = [active_jobs EXCEPT ![j] = except_handler(@, <<"fetch failed">>)]
          /\ loop' = 0
  /\ ret' = NoRet
  /\ UNCHANGED collections

\* GitHubClient.download_repo up to the end of the clone: mkdtemp, then
\* git clone; on failure the archive download suspends the task.
DownloadRepo(j, clone_ok) ==
  /\ loop = j
  /\ tasks[j].pc = "download"
  /\ temp_dirs' = temp_dirs \cup {j}
  /\ IF clone_ok
     THEN /\ tasks' = [tasks EXCEPT ![j].pc = "list", ![j].repo_path = "bound"]
          /\ loop' = j
     ELSE /\ tasks' = [tasks EXCEPT ![j].pc = "tarball"]
          /\ loop' = 0
  /\ ret' = NoRet
  /\ UNCHANGED <<active_jobs, collections>>

\* the finally clause: cleanup_temp_repo(repo_path).  With repo_path never
\* assigned the reference raises UnboundLocalError and nothing is removed.
finally_cleanup(dirs, j, repo_path) ==
  IF repo_path = "bound" THEN [dirs |-> dirs \ {j}, raised |-> FALSE]
  ELSE [dirs |-> dirs, raised |-> TRUE]

\* GitHubClient._download_repo_tarball resumes: the archive was fetched and
\* extracted, or the request raised and download_repo raises in the task.
DownloadTarball(j, ok) ==
  /\ loop = 0
  /\ ret = NoRet
  /\ j \in DOMAIN tasks
  /\ tasks[j].pc = "tarball"
  /\ IF ok
     THEN /\ tasks' = [tasks EXCEPT ![j].pc = "list", ![j].repo_path = "bound"]
          /\ loop' = j
          /\ UNCHANGED <<active_jobs, temp_dirs>>
     ELSE LET fin == finally_cleanup(temp_dirs, j, tasks[j].repo_path)
          IN  /\ active_jobs' = [active_jobs EXCEPT ![j] = except_handler(@, <<"fetch failed">>)]
              /\ temp_dirs' = fin.dirs
              /\ tasks' = [tasks EXCEPT ![j] = TaskDone(fin.raised)]
              /\ loop' = 0
  /\ ret' = NoRet
  /\ UNCHANGED collections

\* Step 2: the code files found in the workspace, which holds the upstream
\* revision the download fetched; files_processed = 0
ListFiles(j, rev) ==
  LET t == tasks[j]
  IN  /\ loop = j
      /\ t.pc = "list"
      /\ tasks' = [tasks EXCEPT ![j].pc = "files",
                     ![j].code_files =
                       SelectSeq(Snapshot(repo_full_name(t.owner, t.repo_name), t.branch, rev),
                                 is_code_file)]
      /\ active_jobs' = [active_jobs EXCEPT ![j].files_processed = 0]
      /\ ret' = NoRet
      /\ UNCHANGED <<collections, temp_dirs, loop>>

parse_progress_full(files_processed, n) == (files_processed * Scale) \div n

\* job.progress = (job.files_processed / len(code_files)) * 0.7
parse_progress(files_processed, n) == (files_processed * 7 * (Scale \div 10)) \div n

file_error_dropped(job, e) == job

\* the except clause of the loop over the files: job.errors.append(...)
file_error(job, e) == [job EXCEPT !.errors = Append(@, e)]

\* Step 3: one iteration of the loop over code_files
ProcessFile(j) ==
  LET t    == tasks[j]
      i    == t.next_file
      repo == repo_full_name(t.owner, t.repo_name)
      res  == process_file(repo, t.code_files[i])
  IN  /\ loop = j
      /\ t.pc = "files"
      /\ i <= Len(t.code_files)
      /\ IF res.raised
         THEN /\ active_jobs' = [active_jobs EXCEPT ![j] =
                                   file_error(@, <<"Error processing">> \o t.code_files[i].path)]
              /\ tasks' = [tasks EXCEPT ![j].next_file = i + 1]
         ELSE /\ active_jobs' = [active_jobs EXCEPT
                                   ![j].files_processed = @ + 1,
                                   ![j].progress =
                                     parse_progress(active_jobs[j].files_processed + 1,
                                                    Len(t.code_files))]
              /\ tasks' = [tasks EXCEPT ![j].next_file = i + 1,
                                        ![j].all_chunks = @ \o res.chunks]
      /\ ret' = NoRet
      /\ UNCHANGED <<collections, temp_dirs, loop>>

StoreChunks_early(j, failAt) ==
  LET t    == tasks[j]
      repo == repo_full_name(t.owner, t.repo_name)
      res  == store_chunks(collections, t.all_chunks, repo, t.user_id, t.branch, failAt)
  IN  /\ loop = j
      /\ t.pc = "files"
      /\ failAt \in 0..NumBatches(t.all_chunks)
      /\ collections' = res.colls
      /\ active_jobs' =
           [active_jobs EXCEPT ![j] =
              IF res.raised THEN except_handler(@, <<"store failed">>)
              ELSE [@ EXCEPT !.chunks_indexed = Len(t.all_chunks),
                             !.progress = ProgressOne,
                             !.status = "completed",
                             !.completed_at = "set"]]
      /\ tasks' = [tasks EXCEPT ![j].pc = "cleanup"]
      /\ ret' = NoRet
      /\ UNCHANGED <<temp_dirs, loop>>

\* Step 4: store_chunks, then the job's final record (completed, or failed
\* in the except clause)
StoreChunks(j, failAt) ==
  LET t    == tasks[j]
      repo == repo_full_name(t.owner, t.repo_name)
      res  == store_chunks(collections, t.all_chunks, repo, t.user_id, t.branch, failAt)
  IN  /\ loop = j
      /\ t.pc = "files"
      /\ t.next_file > Len(t.code_files)
      /\ failAt \in 0..NumBatches(t.all_chunks)
      /\ collections' = res.colls
      /\ active_jobs' =
           [active_jobs EXCEPT ![j] =
              IF res.raised THEN except_handler(@, <<"store failed">>)
              ELSE [@ EXCEPT !.chunks_indexed = Len(t.all_chunks),
                             !.progress = ProgressOne,
                             !.status = "completed",
                             !.completed_at = "set"]]
      /\ tasks' = [tasks EXCEPT ![j].pc = "cleanup"]
      /\ ret' = NoRet
      /\ UNCHANGED <<temp_dirs, loop>>

Cleanup_in_try(j) ==
  LET fin == finally_cleanup(temp_dirs, j, tasks[j].repo_path)
  IN  /\ loop = j
      /\ tasks[j].pc = "cleanup"
      /\ temp_dirs' = fin.dirs
      /\ tasks' = [tasks EXCEPT ![j] = TaskDone(fin.raised)]
      /\ loop' = 0
      /\ ret' = NoRet
      /\ active_jobs' = [active_jobs EXCEPT ![j] = except_handler(@, <<"cleanup failed">>)]
      /\ UNCHANGED collections

\* finally: await self.github_client.cleanup_temp_repo(repo_path); the task ends
Cleanup(j) ==
  LET fin == finally_cleanup(temp_dirs, j, tasks[j].repo_path)
  IN  /\ loop = j
      /\ tasks[j].pc = "cleanup"
      /\ temp_dirs' = fin.dirs
      /\ tasks' = [tasks EXCEPT ![j] = TaskDone(fin.raised)]
      /\ loop' = 0
      /\ ret' = NoRet
      /\ UNCHANGED <<active_jobs, collections>>

\* RepoIndexer.search
Search(query, repos, user_id, n_results) ==
  /\ loop = 0
  /\ ret = NoRet
  /\ ret' = [op |-> "search",
             args |-> [query |-> query, repos |-> repos, user_id |-> user_id,
                       n_results |-> n_results],
             out |-> search(collections, query, repos, user_id, n_results)]
  /\ UNCHANGED <<active_jobs, tasks, collections, temp_dirs, loop>>

\* The caller takes the value its call returned and goes on.
Return ==
  /\ ret # NoRet
  /\ ret' = NoRet
  /\ UNCHANGED <<active_jobs, tasks, collections, temp_dirs, loop>>

CallSearch ==
  \E q \in Queries, repos \in RepoLists, u \in Users, k \in 0..MaxK :
    Search(q, repos, u, k)

CallIndexRepository ==
  \E url \in Urls, u \in Users, b \in Branches, inc \in BOOLEAN :
    IndexRepository(url, u, b, inc)

CallGetJobStatus == \E id \in 0..MaxJobs : GetJobStatus(id)

\* the steps of the task of job j
TaskStepOf(j) ==
  \/ RunStart(j)
  \/ \E ok \in BOOLEAN : DownloadRepo(j, ok)
  \/ \E ok \in BOOLEAN : DownloadTarball(j, ok)
  \/ \E rev \in Revs : ListFiles(j, rev)
  \/ ProcessFile(j)
  \/ \E failAt \in 0..MaxBatches : StoreChunks(j, failAt)
  \/ Cleanup(j)

TaskStep == \E j \in JobIds : TaskStepOf(j)

Next == CallIndexRepository \/ CallGetJobStatus \/ Return \/ TaskStep

Spec == Init /\ [][Next]_vars

\* The event loop runs every task that is ready (a task created by
\* create_task, or one whose awaited download has returned or raised) after
\* the callbacks queued before it, however often clients call in between;
\* and a call of index_repository or get_job_status returns to its caller.
Fairness ==
  /\ WF_vars(Return)
  /\ \A j \in JobIds : SF_vars(TaskStepOf(j))

\* The client of examples/basic_usage.py: it asks for a full index as one
\* user and polls the status of the jobs.
CallIndexPolled ==
  \E url \in Urls, b \in Branches : IndexRepository(url, "u1", b, FALSE)

CallPoll == \E id \in JobIds : GetJobStatus(id)

NextLive == CallIndexPolled \/ CallPoll \/ Return \/ TaskStep

SpecLive == Init /\ [][NextLive]_vars /\ Fairness

\* A direct call of the embedder (as test_without_chroma.py makes)
EmbedBatch(provider, chunks) ==
  /\ loop = 0
  /\ ret = NoRet
  /\ ret' = [op |-> "embed",
             args |-> [provider |-> provider, chunks |-> chunks],
             out |-> embed_batch(provider, chunks)]
  /\ UNCHANGED <<active_jobs, tasks, collections, temp_dirs, loop>>

\* chunk lists to embed: up to MaxK chunks out of those of a/b on main
EmbedInputs ==
  LET repo == <<"a", "/", "b">>
      pool == UNION {{process_file(repo, f).chunks[i] : i \in 1..Len(process_file(repo, f).chunks)} :
                       f \in {Snapshot(repo, <<"main">>, 1)[k] :
                                k \in 1..Len(Snapshot(repo, <<"main">>, 1))}}
  IN  UNION {[1..n -> pool] : n \in 0..MaxK}

CallEmbedBatch ==
  \E p \in Providers, chunks \in EmbedInputs : EmbedBatch(p, chunks)

\* The same program with a client that also searches.
NextSearch == Next \/ CallSearch

SpecSearch == Init /\ [][NextSearch]_vars

\* Requests for repositories and branches whose names hold an underscore:
\* a/b on branch c_d, a/b_c on branch d
AliasUrls ==
  { <<"https:", "/", "/", "github.com", "/", "a", "/", "b">>,
    <<"https:", "/", "/", "github.com", "/", "a", "/", "b", "_", "c">> }

AliasBranches == {<<"c", "_", "d">>, <<"d">>}

CallIndexAlias ==
  \E url \in AliasUrls, u \in Users, b \in AliasBranches, inc \in BOOLEAN :
    IndexRepository(url, u, b, inc)

\* The same program with a client that indexes these instead.
NextAlias == CallIndexAlias \/ CallGetJobStatus \/ Return \/ TaskStep

SpecAlias == Init /\ [][NextAlias]_vars

\* The same program with a client that also calls the embedder.
NextEmbed == Next \/ CallEmbedBatch

SpecEmbed == Init /\ [][NextEmbed]_vars

(* ------------------------------- claims -------------------------------- *)
Jobs == DOMAIN active_jobs

\* C1: a job's status only moves pending -> running -> completed or
\* pending -> running -> failed; completed and failed are final.
StatusStep(old, new) ==
  \/ new = old
  \/ old = "pending" /\ new = "running"
  \/ old = "running" /\ new \in {"completed", "failed"}

C1_StatusForwardOnly ==
  [][\A j \in Jobs : StatusStep(active_jobs[j].status, active_jobs'[j].status)]_vars

\* one job has completed and its task has ended, another has failed
C1_Witness ==
  \E j, k \in Jobs :
    /\ active_jobs[j].status = "completed"
    /\ tasks[j].pc = "done"
    /\ active_jobs[k].status = "failed"

\* C2: progress of a job never decreases, stays within [0, 1], and is 1.0
\* exactly when status is completed, in the job table, in what a poll
\* returns and in the job index_repository returns.
ProgressOk(job) ==
  /\ job.progress >= 0
  /\ job.progress <= ProgressOne
  /\ (job.progress = ProgressOne) <=> (job.status = "completed")

C2_ProgressInv ==
  /\ \A j \in Jobs : ProgressOk(active_jobs[j])
  /\ ret.op = "index" => ProgressOk(ret.job)
  /\ (ret.op = "status" /\ ret.result # <<>>) => ProgressOk(ret.result[1])

C2_Progress ==
  /\ []C2_ProgressInv
  /\ [][\A j \in Jobs : active_jobs'[j].progress >= active_jobs[j].progress]_vars

\* a poll returns a completed job over a repository with no code file,
\* after an earlier job stopped with its progress in the parsing band
C2_Witness ==
  /\ ret.op = "status"
  /\ ret.result # <<>>
  /\ ret.result[1].status = "completed"
  /\ ret.result[1].files_processed = 0
  /\ ret.result[1].errors = <<>>
  /\ \E j \in Jobs : /\ active_jobs[j].status = "failed"
                     /\ active_jobs[j].progress > 0

\* C3: when a job's background task has ended, the temporary directory
\* download_repo made for it is gone.
C3_WorkspaceReleased ==
  \A j \in DOMAIN tasks : tasks[j].pc = "done" => j \notin temp_dirs

\* C4: a non-incremental index_repository short-circuits exactly when the
\* collection of the requested (repo, branch) exists.
C4_ShortCircuitIffRequestedExists ==
  (ret.op = "index" /\ ~ret.args.incremental) =>
    ((ret.job.job_id = CachedId)
       <=> collection_exists(collections, ret.args.repo, ret.args.branch))

\* (repo, branch) is fully indexed: its collection exists and records the
\* chunk count of a store that went through
FullyIndexed(repo, branch) ==
  /\ collection_exists(collections, repo, branch)
  /\ get_chunk_count(collections, repo, branch) > 0

\* C5: a non-incremental index_repository by user v on a fully indexed
\* (repo, branch) registers no job and starts no task, leaves the stored
\* chunks and total_chunks as they are, returns a completed job whose
\* chunks_indexed is the existing chunk count, and leaves v a tenant.
C5_SecondCallStep ==
  LET a    == ret'.args
      name == get_collection_name(a.repo, a.branch)
  IN  (/\ ret.op = "none"
       /\ ret'.op = "index"
       /\ ~a.incremental
       /\ FullyIndexed(a.repo, a.branch))
      => /\ active_jobs' = active_jobs
         /\ tasks' = tasks
         /\ temp_dirs' = temp_dirs
         /\ DOMAIN collections' = DOMAIN collections
         /\ \A n \in DOMAIN collections :
              /\ collections'[n].docs = collections[n].docs
              /\ collections'[n].metadata.total_chunks = collections[n].metadata.total_chunks
         /\ ret'.job.status = "completed"
         /\ ret'.job.chunks_indexed = get_chunk_count(collections, a.repo, a.branch)
         /\ InSeq(a.user_id, collections'[name].metadata.indexed_by_users)

C5_SecondCallShortCircuits == [][C5_SecondCallStep]_vars

\* C6: a call that does not short-circuit returns a pending job that is
\* already in the job table while its task has not run; jobs are never
\* removed from the table; get_job_status returns the table's current
\* record (None for an unknown id) and changes nothing.
C6_RetInv ==
  /\ (ret.op = "index" /\ ret.job.job_id # CachedId) =>
       /\ ret.job.status = "pending"
       /\ ret.job.job_id \in Jobs
       /\ active_jobs[ret.job.job_id] = ret.job
       /\ tasks[ret.job.job_id].pc = "created"
  /\ ret.op = "status" =>
       /\ ret.job_id \in Jobs => ret.result = <<active_jobs[ret.job_id]>>
       /\ ret.job_id \notin Jobs => ret.result = <<>>

C6_Step ==
  /\ Jobs \subseteq DOMAIN active_jobs'
  /\ (ret.op = "none" /\ ret'.op = "status") =>
       UNCHANGED <<active_jobs, tasks, collections, temp_dirs, loop>>

C6_NonBlockingAndPollable == []C6_RetInv /\ [][C6_Step]_vars

\* a poll returns the record of a job that is running (its task is
\* suspended in the archive download) while another job is still pending
C6_Witness ==
  /\ ret.op = "status"
  /\ ret.result # <<>>
  /\ ret.result[1].status = "running"
  /\ \E j \in Jobs : active_jobs[j].status = "pending"

(* ---------------------------- claims on search ------------------------- *)
\* the collection search opens for a requested repo
Requested(repo) == get_collection_name(repo, DefaultBranch)

\* repo's collection exists and lists user_id as a tenant
Accessible(colls, repo, user_id) ==
  /\ Requested(repo) \in DOMAIN colls
  /\ InSeq(user_id, colls[Requested(repo)].metadata.indexed_by_users)

\* repo's collection exists, holds chunks, and user_id is no tenant of it
Denied(colls, repo, user_id) ==
  /\ Requested(repo) \in DOMAIN colls
  /\ DOMAIN colls[Requested(repo)].docs # {}
  /\ ~InSeq(user_id, colls[Requested(repo)].metadata.indexed_by_users)

RECURSIVE SelectSeq2(_, _, _)
\* the elements of s that are in the set keep, in order
SelectSeq2(s, keep, n) ==
  IF n = 0 THEN <<>>
  ELSE IF s[n] \in keep THEN Append(SelectSeq2(s, keep, n - 1), s[n])
  ELSE SelectSeq2(s, keep, n - 1)

Restrict(repos, keep) == SelectSeq2(repos, keep, Len(repos))

\* C7: search returns no chunk read from a collection whose tenant set does
\* not contain the searching user.
C7_OnlyTenantCollections ==
  ret.op = "search" =>
    \A i \in 1..Len(ret.out.results) :
      /\ ret.out.results[i].source \in DOMAIN collections
      /\ InSeq(ret.args.user_id,
               collections[ret.out.results[i].source].metadata.indexed_by_users)

\* a search that returned something although a requested collection the
\* user is no tenant of holds a chunk nearer than every returned one
C7_Witness ==
  /\ ret.op = "search"
  /\ ret.out.results # <<>>
  /\ \E r \in Repos :
       /\ InSeq(r, ret.args.repos)
       /\ Denied(collections, r, ret.args.user_id)
       /\ \E id \in DOMAIN collections[Requested(r)].docs :
            \A i \in 1..Len(ret.out.results) :
              Distance(embed_query(ret.args.query),
                       collections[Requested(r)].docs[id].embedding)
                < ret.out.results[i].distance

\* the store without the collection of repo
WithoutCollection(colls, repo) ==
  [n \in (DOMAIN colls) \ {Requested(repo)} |-> colls[n]]

\* the store with the chunks of repo's collection taken out
WithEmptyCollection(colls, repo) ==
  IF Requested(repo) \in DOMAIN colls
  THEN [colls EXCEPT ![Requested(repo)].docs = NoDocs]
  ELSE colls

\* C8: for a user who is no tenant of repo R, the outcome of search (the
\* results and whether it raised) is the same with R taken off the list,
\* with R's collection absent and with R's collection holding other content.
C8_NoDisclosure ==
  ret.op = "search" =>
    LET a == ret.args
    IN  \A r \in Repos :
          ~Accessible(collections, r, a.user_id) =>
            /\ ret.out = search(collections, a.query, Restrict(a.repos, Repos \ {r}),
                                a.user_id, a.n_results)
            /\ ret.out = search(WithoutCollection(collections, r), a.query, a.repos,
                                a.user_id, a.n_results)
            /\ ret.out = search(WithEmptyCollection(collections, r), a.query, a.repos,
                                a.user_id, a.n_results)

\* a search with n_results = 0 over a list holding a repo whose collection
\* the user may not read and nothing else: it comes back empty, no error
C8_Witness ==
  /\ ret.op = "search"
  /\ ret.args.n_results = 0
  /\ ret.args.repos # <<>>
  /\ \A i \in 1..Len(ret.args.repos) :
       Denied(collections, ret.args.repos[i], ret.args.user_id)
  /\ ret.out = [raised |-> FALSE, results |-> <<>>]

\* the candidates of the collections search may read for this call: pairs
\* of collection name and chunk id
Candidates(colls, repos, user_id) ==
  UNION {{<<Requested(repos[i]), id>> : id \in DOMAIN colls[Requested(repos[i])].docs} :
           i \in {k \in 1..Len(repos) : Accessible(colls, repos[k], user_id)}}

Returned(results) ==
  {<<results[i].source, results[i].chunk.id>> : i \in 1..Len(results)}

C10_SkipsUnreadableRepos ==
  ret.op = "search" =>
    LET a        == ret.args
        readable == {r \in Repos : Accessible(collections, r, a.user_id)}
    IN  /\ ret.out = search(collections, a.query, Restrict(a.repos, readable),
                            a.user_id, a.n_results)
        /\ a.n_results >= 1 => ~ret.out.raised
        /\ Restrict(a.repos, readable) = <<>> =>
             ret.out = [raised |-> FALSE, results |-> <<>>]

\* a search over a repo without a collection and a repo the user may not
\* read returns the empty list
C10_Witness ==
  /\ ret.op = "search"
  /\ ret.args.n_results >= 1
  /\ \E i, j \in 1..Len(ret.args.repos) :
       /\ Requested(ret.args.repos[i]) \notin DOMAIN collections
       /\ Denied(collections, ret.args.repos[j], ret.args.user_id)
  /\ ret.out = [raised |-> FALSE, results |-> <<>>]

(* ------------------------ claims on the pipeline ----------------------- *)
\* this step is the store phase of job j (step 4 up to the job's final record)
StorePhase(j) ==
  /\ j \in DOMAIN tasks
  /\ tasks[j].pc = "files"
  /\ tasks'[j].pc = "cleanup"

\* the collection job j writes to
TargetOf(j) ==
  get_collection_name(repo_full_name(tasks[j].owner, tasks[j].repo_name), tasks[j].branch)

\* the entry store_chunks is to leave for chunk c
EntryOf(c) == [meta |-> c, embedding |-> encode(textify(c))]

\* every chunk of job j is already stored, with the same content
ContentUnchanged(j) ==
  /\ TargetOf(j) \in DOMAIN collections
  /\ \A i \in 1..Len(tasks[j].all_chunks) :
       LET c == tasks[j].all_chunks[i]
       IN  /\ c.id \in DOMAIN collections[TargetOf(j)].docs
           /\ collections[TargetOf(j)].docs[c.id] = EntryOf(c)
  /\ DOMAIN collections[TargetOf(j)].docs
       = {tasks[j].all_chunks[i].id : i \in 1..Len(tasks[j].all_chunks)}

\* C11: storage is an upsert keyed by chunk id.  When the store phase of a
\* job goes through, every chunk it stored is in the collection under its
\* id with the content of this run (an entry already present is replaced),
\* and a run over unchanged content leaves the same set of ids.
C11_UpsertStep ==
  \A j \in DOMAIN tasks :
    (/\ StorePhase(j)
     /\ active_jobs'[j].status = "completed"
     /\ tasks[j].all_chunks # <<>>)
    => /\ TargetOf(j) \in DOMAIN collections'
       /\ \A i \in 1..Len(tasks[j].all_chunks) :
            LET c == tasks[j].all_chunks[i]
            IN  /\ c.id \in DOMAIN collections'[TargetOf(j)].docs
                /\ collections'[TargetOf(j)].docs[c.id] = EntryOf(c)
       /\ ContentUnchanged(j) =>
            DOMAIN collections'[TargetOf(j)].docs = DOMAIN collections[TargetOf(j)].docs

C11_Upsert == [][C11_UpsertStep]_vars

\* every chunk the extractor has produced that the state still holds: in
\* the chunk lists of the running tasks and in the collections
ChunksOfTasks ==
  UNION {{tasks[j].all_chunks[i] : i \in 1..Len(tasks[j].all_chunks)} : j \in DOMAIN tasks}

ChunksStored ==
  UNION {{collections[n].docs[id].meta : id \in DOMAIN collections[n].docs} :
           n \in DOMAIN collections}

SameKey(c, d) ==
  /\ c.repo = d.repo
  /\ c.file_path = d.file_path
  /\ c.name = d.name
  /\ c.start_line = d.start_line

\* C12: the id of a chunk is a function of (repo, file_path, name,
\* start_line) alone: it is the normalised concatenation of these four,
\* whatever the text, the last line, the language or the run.
C12_ChunkIdPure ==
  \A c \in ChunksOfTasks \cup ChunksStored :
    c.id = chunk_id(c.repo, c.file_path, c.name, c.start_line)

\* a run has extracted a chunk that agrees on the four values with a stored
\* chunk of an earlier run, with another text and another last line, and
\* the two have the same id
C12_Witness ==
  \E c \in ChunksOfTasks : \E d \in ChunksStored :
    /\ SameKey(c, d)
    /\ c.code # d.code
    /\ c.end_line # d.end_line
    /\ c.id = d.id

\* the chunks of job j that are in its collection after this step
StoredAfter(j) ==
  {i \in 1..Len(tasks[j].all_chunks) :
     tasks[j].all_chunks[i].id \in DOMAIN collections'[TargetOf(j)].docs}

\* C13: total_chunks is advanced batch by batch: when store_chunks fails in
\* a later batch, total_chunks of the collection still counts the chunks of
\* the batches that were added before the failure.
C13_FailedStoreStep ==
  \A j \in DOMAIN tasks :
    (StorePhase(j) /\ active_jobs'[j].status = "failed")
    => /\ TargetOf(j) \in DOMAIN collections'
       /\ collections'[TargetOf(j)].metadata.total_chunks >= Cardinality(StoredAfter(j))

C13_TotalChunksPerBatch == [][C13_FailedStoreStep]_vars

\* s ends with the token string t
EndsWith(s, t) ==
  /\ Len(s) >= Len(t)
  /\ SubSeq(s, Len(s) - Len(t) + 1, Len(s)) = t

\* C15: when embed_batch fails on a chunk during the store phase of job j
\* (the raise of StoreChunks in some batch), the error recorded names that
\* chunk's id and every other chunk of the job, in the same batch and in
\* the other batches, is still stored.
C15_FailedEmbedStep ==
  \A j \in DOMAIN tasks :
    (StorePhase(j) /\ active_jobs'[j].errors # active_jobs[j].errors)
    => \E i \in 1..Len(tasks[j].all_chunks) :
         /\ EndsWith(active_jobs'[j].errors[Len(active_jobs'[j].errors)],
                     tasks[j].all_chunks[i].id)
         /\ \A m \in 1..Len(tasks[j].all_chunks) : m # i => m \in StoredAfter(j)

C15_EmbeddingFailureIsPerChunk == [][C15_FailedEmbedStep]_vars

\* s is a prefix of t
IsPrefix(s, t) == Len(s) <= Len(t) /\ SubSeq(t, 1, Len(s)) = s

\* the repository job j indexes
RepoOf(j) == repo_full_name(tasks[j].owner, tasks[j].repo_name)

\* this step is an iteration of the loop over the files in which
\* _process_file raises
FileRaises(j) ==
  /\ j \in DOMAIN tasks
  /\ tasks[j].pc = "files"
  /\ tasks[j].next_file <= Len(tasks[j].code_files)
  /\ tasks'[j].next_file = tasks[j].next_file + 1
  /\ process_file(RepoOf(j), tasks[j].code_files[tasks[j].next_file]).raised

\* C16: a file whose processing raises adds one entry to job.errors and the
\* job goes on with the next file; when the store phase then goes through,
\* every file has been visited and the chunks of all the files that did not
\* raise are in the collection; no step removes or rewrites an entry of errors.
C16_Step ==
  /\ \A j \in Jobs : IsPrefix(active_jobs[j].errors, active_jobs'[j].errors)
  /\ \A j \in DOMAIN tasks :
       /\ FileRaises(j) =>
            /\ Len(active_jobs'[j].errors) = Len(active_jobs[j].errors) + 1
            /\ EndsWith(active_jobs'[j].errors[Len(active_jobs'[j].errors)],
                        tasks[j].code_files[tasks[j].next_file].path)
            /\ active_jobs'[j].status = "running"
            /\ tasks'[j].pc = "files"
            /\ tasks'[j].all_chunks = tasks[j].all_chunks
       /\ (StorePhase(j) /\ active_jobs'[j].status = "completed") =>
            /\ tasks[j].next_file = Len(tasks[j].code_files) + 1
            /\ \A k \in 1..Len(tasks[j].code_files) :
                 LET res == process_file(RepoOf(j), tasks[j].code_files[k])
                 IN  \A i \in 1..Len(res.chunks) :
                       res.chunks[i].id \in DOMAIN collections'[TargetOf(j)].docs

C16_FileFailureTolerated == [][C16_Step]_vars

\* a job is completed with the error of one file on record and the chunks
\* of another file stored
C16_Witness ==
  \E j \in Jobs :
    /\ active_jobs[j].status = "completed"
    /\ Len(active_jobs[j].errors) = 1
    /\ active_jobs[j].chunks_indexed > 0
    /\ \E n \in DOMAIN collections :
         Cardinality(DOMAIN collections[n].docs) = active_jobs[j].chunks_indexed

\* the files of code_files the loop of job j has visited
Visited(j) == 1..(tasks[j].next_file - 1)

\* a code file with a registered grammar that cannot be read or processed
FailsToProcess(file) ==
  /\ get_language(suffix(file.path)) # "unknown"
  /\ file.kind \in {"unreadable", "raise"}

\* C17: every code file with a registered grammar that could not be read,
\* decoded or parsed has an entry in job.errors and is not counted in
\* files_processed.
C17_FileFailuresRecorded ==
  \A j \in DOMAIN tasks :
    tasks[j].pc \in {"files", "cleanup"} =>
      LET failed == {k \in Visited(j) : FailsToProcess(tasks[j].code_files[k])}
      IN  /\ \A k \in failed :
                \E e \in 1..Len(active_jobs[j].errors) :
                  EndsWith(active_jobs[j].errors[e], tasks[j].code_files[k].path)
          /\ active_jobs[j].files_processed <= Cardinality(Visited(j) \ failed)

\* the extensions _is_code_file enumerates that have no grammar
EnumeratedWithoutGrammar == {".rb", ".php", ".swift", ".kt", ".scala"}

\* a path whose extension has no registered grammar: not enumerated as a
\* code file (the snapshots hold .md), or enumerated without a grammar
NoGrammar(path) ==
  \/ suffix(path) \in EnumeratedWithoutGrammar
  \/ suffix(path) = ".md"

\* this step is an iteration of the loop of job j over a file without grammar
SkipsFile(j) ==
  /\ j \in DOMAIN tasks
  /\ tasks[j].pc = "files"
  /\ tasks[j].next_file <= Len(tasks[j].code_files)
  /\ tasks'[j].next_file = tasks[j].next_file + 1
  /\ NoGrammar(tasks[j].code_files[tasks[j].next_file].path)

\* no chunk comes from a file without grammar, and chunks_indexed of a job
\* counts the chunks of its list
C18_Inv ==
  /\ \A c \in ChunksOfTasks \cup ChunksStored : ~NoGrammar(c.file_path)
  /\ \A j \in DOMAIN tasks :
       (tasks[j].pc = "cleanup" /\ active_jobs[j].status = "completed") =>
          active_jobs[j].chunks_indexed = Len(tasks[j].all_chunks)

\* visiting a file without grammar adds no error and no chunk and leaves
\* the job running
C18_Step ==
  \A j \in DOMAIN tasks :
    SkipsFile(j) =>
      /\ active_jobs'[j].errors = active_jobs[j].errors
      /\ tasks'[j].all_chunks = tasks[j].all_chunks
      /\ active_jobs'[j].status = "running"
      /\ tasks'[j].pc = "files"

\* C18: a file whose extension has no registered grammar is skipped as a
\* non-error: nothing is added to job.errors, no chunk of it is extracted,
\* stored or counted in chunks_indexed, and the job goes on to completed.
C18_NoGrammarSkipped == []C18_Inv /\ [][C18_Step]_vars

\* a job over c/d on main (a .md file, a .rb file and a python file) is
\* completed with no error and only the chunk of the python file
C18_Witness ==
  \E j \in Jobs :
    /\ active_jobs[j].repo = <<"c", "/", "d">>
    /\ active_jobs[j].status = "completed"
    /\ active_jobs[j].errors = <<>>
    /\ active_jobs[j].files_processed = MaxFiles
    /\ active_jobs[j].chunks_indexed = 1
    /\ \E k \in 1..Len(Snapshot(active_jobs[j].repo, <<"main">>, 1)) :
         suffix(Snapshot(active_jobs[j].repo, <<"main">>, 1)[k].path)
           \in EnumeratedWithoutGrammar

\* C19: each (repo, branch) has a collection of its own: what a collection
\* holds was written for the one pair its metadata names, so every chunk in
\* it is a chunk of that repository.
C19_CollectionPerPair ==
  \A n \in DOMAIN collections :
    \A id \in DOMAIN collections[n].docs :
      collections[n].docs[id].meta.repo = collections[n].metadata.repo

\* C20: a collection is created only by a successful index: a collection
\* comes into existence only in the store phase of a job for its (repo,
\* branch) that ends completed in that step.
C20_CreationStep ==
  \A n \in (DOMAIN collections') \ (DOMAIN collections) :
    \E j \in DOMAIN tasks :
      /\ StorePhase(j)
      /\ TargetOf(j) = n
      /\ active_jobs'[j].status = "completed"

C20_CreatedOnlyBySuccess == [][C20_CreationStep]_vars

\* job k was registered after job j and has completed on j's repository
\* while j is still running: the two calls overlapped
OverlappedBy(j, k) ==
  /\ k \in Jobs
  /\ k > j
  /\ active_jobs[k].status = "completed"
  /\ active_jobs[k].repo = RepoOf(j)

\* C21: when two jobs for the same (repo, branch) overlap, the store phase
\* of the one that writes last leaves total_chunks in step with what the
\* collection holds: the count the other job wrote is not replaced by a
\* count that leaves out chunks the collection has.
C21_SecondStoreStep ==
  \A j \in DOMAIN tasks :
    (/\ StorePhase(j)
     /\ active_jobs'[j].status = "completed"
     /\ TargetOf(j) \in DOMAIN collections
     /\ \E k \in Jobs : OverlappedBy(j, k))
    => collections'[TargetOf(j)].metadata.total_chunks
         = Cardinality(DOMAIN collections'[TargetOf(j)].docs)

C21_SingleWriter == [][C21_SecondStoreStep]_vars

\* C22: jobs are isolated: a step that changes a job's record is a step of
\* that job's own task, and it leaves the record and the task of every
\* other job as they were; so a job that fails changes no other job.
C22_IsolationStep ==
  \A k \in DOMAIN active_jobs :
    active_jobs'[k] # active_jobs[k] =>
      /\ tasks'[k] # tasks[k]
      /\ loop = k \/ loop' = k \/ tasks[k].pc = "tarball"
      /\ \A m \in (DOMAIN active_jobs) \ {k} :
           /\ active_jobs'[m] = active_jobs[m]
           /\ tasks'[m] = tasks[m]

C22_JobIsolation == [][C22_IsolationStep]_vars

\* two jobs ran side by side, one failed and the other completed after it
C22_Witness ==
  \E j, k \in Jobs :
    /\ active_jobs[j].status = "failed"
    /\ active_jobs[k].status = "completed"
    /\ tasks[j].pc = "done"
    /\ tasks[k].pc = "cleanup"

\* the job's record says the fetch failed
FetchFailed(job) ==
  /\ job.status = "failed"
  /\ job.errors # <<>>
  /\ job.errors[Len(job.errors)] = <<"fetch failed">>

\* C23: download_repo tries the clone first; the archive fallback is entered
\* from the failed clone only, once; either mechanism succeeding hands the
\* workspace to the job, which goes on running; the job fails on its fetch
\* only when the fallback has failed after the clone did.
C23_DownloadStep ==
  \A j \in DOMAIN tasks :
    /\ tasks[j].pc = "download" =>
          \/ tasks'[j] = tasks[j]
          \/ /\ tasks'[j].pc = "list"
             /\ tasks'[j].repo_path = "bound"
             /\ active_jobs'[j] = active_jobs[j]
          \/ /\ tasks'[j].pc = "tarball"
             /\ active_jobs'[j] = active_jobs[j]
    /\ tasks[j].pc = "tarball" =>
          \/ tasks'[j] = tasks[j]
          \/ /\ tasks'[j].pc = "list"
             /\ tasks'[j].repo_path = "bound"
             /\ active_jobs'[j] = active_jobs[j]
          \/ /\ tasks'[j].pc = "done"
             /\ FetchFailed(active_jobs'[j])
    /\ (tasks'[j].pc = "tarball" /\ tasks[j].pc # "tarball") => tasks[j].pc = "download"
    /\ (tasks'[j].pc = "download" /\ tasks[j].pc # "download") => tasks[j].pc = "created"
    /\ (FetchFailed(active_jobs'[j]) /\ ~FetchFailed(active_jobs[j])) => tasks[j].pc = "tarball"

C23_DownloadInv ==
  \A j \in DOMAIN tasks :
    tasks[j].pc \in {"download", "tarball"} =>
      /\ active_jobs[j].status = "running"
      /\ tasks[j].repo_path = "unbound"

C23_CloneThenFallback == []C23_DownloadInv /\ [][C23_DownloadStep]_vars

\* one job failed on its fetch (clone and archive both failed) and another
\* got its workspace
C23_Witness ==
  \E j, k \in Jobs :
    /\ FetchFailed(active_jobs[j])
    /\ tasks[k].pc = "list"
    /\ tasks[k].repo_path = "bound"
    /\ active_jobs[k].status = "running"

\* the two collection states differ at most in the tenant list of name
SameButTenants(c1, c2, name) ==
  /\ DOMAIN c1 = DOMAIN c2
  /\ \A n \in DOMAIN c1 :
       /\ c1[n].docs = c2[n].docs
       /\ [c1[n].metadata EXCEPT !.indexed_by_users = <<>>]
            = [c2[n].metadata EXCEPT !.indexed_by_users = <<>>]
       /\ n # name => c1[n] = c2[n]

Occurrences(x, s) == Cardinality({i \in 1..Len(s) : s[i] = x})

C24_MaintenanceInv ==
  \A repo \in Repos, b \in Branches, u \in Users :
    LET name  == get_collection_name(repo, b)
        once  == add_user_to_repo(collections, repo, u, b)
        twice == add_user_to_repo(once, repo, u, b)
    IN  /\ twice = once
        /\ SameButTenants(collections, once, name)
        /\ collection_exists(once, repo, b) = collection_exists(collections, repo, b)
        /\ get_chunk_count(once, repo, b) = get_chunk_count(collections, repo, b)
        /\ IF collection_exists(collections, repo, b)
           THEN /\ Occurrences(u, once[name].metadata.indexed_by_users) = 1
                /\ IsPrefix(collections[name].metadata.indexed_by_users,
                            once[name].metadata.indexed_by_users)
           ELSE /\ once = collections
                /\ get_chunk_count(collections, repo, b) = 0

\* the call that is answered from the existing index (collection_exists,
\* add_user_to_repo, get_chunk_count in a row) changes the tenant list of
\* the one collection and nothing else
C24_MaintenanceStep ==
  (ret = NoRet /\ ret'.op = "index" /\ ret'.job.job_id = CachedId) =>
    /\ SameButTenants(collections, collections',
                      get_collection_name(ret'.args.repo, DefaultBranch))
    /\ InSeq(ret'.args.user_id,
             collections'[get_collection_name(ret'.args.repo, DefaultBranch)]
               .metadata.indexed_by_users)
    /\ UNCHANGED <<active_jobs, tasks, temp_dirs>>

\* C24: add_user_to_repo applied twice equals applied once, the user is in
\* the tenant list once, nothing but the tenant list changes, and a missing
\* collection is left missing; collection_exists and get_chunk_count change
\* nothing, and the count of a missing collection is 0.
C24_MaintenanceIdempotent == []C24_MaintenanceInv /\ [][C24_MaintenanceStep]_vars

\* a call was answered from the index and made its user the second tenant
C24_Witness ==
  /\ ret.op = "index"
  /\ ret.job.job_id = CachedId
  /\ LET name == get_collection_name(ret.args.repo, DefaultBranch)
     IN  /\ Len(collections[name].metadata.indexed_by_users) = 2
         /\ collections[name].metadata.indexed_by_users[2] = ret.args.user_id

\* the errors the loop over the files recorded
FileErrors(job) ==
  SelectSeq(job.errors, LAMBDA e : IsPrefix(<<"Error processing">>, e))

C25_PhaseInv ==
  \A j \in Jobs :
    LET job == active_jobs[j]
        t   == tasks[j]
        n   == Len(t.code_files)
    IN  /\ job.status # "completed" => job.chunks_indexed = 0
        /\ job.status # "completed" => job.progress * 10 <= 7 * ProgressOne
        /\ t.pc \in {"created", "download", "tarball", "list"} =>
             /\ job.progress = 0
             /\ job.files_processed = 0
             /\ job.errors = <<>>
        /\ t.pc = "files" =>
             /\ job.status = "running"
             /\ job.files_processed <= n
             /\ job.files_processed + Len(FileErrors(job)) = t.next_file - 1
             /\ t.next_file <= n + 1
             /\ job.progress = IF job.files_processed = 0 THEN 0
                                ELSE parse_progress(job.files_processed, n)

\* the store phase starts when every code file was processed or has its
\* failure on record
C25_StoreStep ==
  \A j \in DOMAIN tasks :
    StorePhase(j) =>
      /\ tasks[j].next_file = Len(tasks[j].code_files) + 1
      /\ active_jobs[j].files_processed + Len(FileErrors(active_jobs[j]))
           = Len(tasks[j].code_files)
      /\ active_jobs'[j].files_processed = active_jobs[j].files_processed

\* a task moves forward only: fetch, the files, the store, the cleanup
C25_OrderStep ==
  \A j \in DOMAIN tasks :
    tasks'[j].pc # tasks[j].pc =>
      <<tasks[j].pc, tasks'[j].pc>> \in
        { <<"created", "download">>, <<"download", "list">>, <<"download", "tarball">>,
          <<"tarball", "list">>, <<"tarball", "done">>, <<"list", "files">>,
          <<"files", "cleanup">>, <<"cleanup", "done">> }

\* C25: the phases of a job are ordered fetch, files, store; the store
\* starts only after every code file was processed or had its failure
\* recorded; during the files progress is 0.7 * files_processed / total and
\* at most 0.7, files_processed is at most the number of code files, and
\* chunks_indexed is 0 until the job is completed.
C25_PhaseOrder == []C25_PhaseInv /\ [][C25_StoreStep /\ C25_OrderStep]_vars

\* a job stored after one of its files failed and the other was processed
C25_Witness ==
  \E j \in Jobs :
    /\ tasks[j].pc = "cleanup"
    /\ active_jobs[j].status = "completed"
    /\ active_jobs[j].chunks_indexed > 0
    /\ Len(FileErrors(active_jobs[j])) = 1
    /\ active_jobs[j].files_processed = Len(tasks[j].code_files) - 1

\* the tenants of collection n in the store state colls
Tenants(colls, n) ==
  {colls[n].metadata.indexed_by_users[i] :
     i \in 1..Len(colls[n].metadata.indexed_by_users)}

\* C26: the tenant set of a collection only grows: no step removes a
\* collection or a user from a collection's tenant set.
C26_TenantStep ==
  \A n \in DOMAIN collections :
    /\ n \in DOMAIN collections'
    /\ Tenants(collections, n) \subseteq Tenants(collections', n)

C26_TenantsOnlyGrow == [][C26_TenantStep]_vars

\* C27: total_chunks of a collection equals the number of entries the
\* collection holds, in every state between two store_chunks calls (a
\* store_chunks call is one step: none is ever in progress in a state).
C27_TotalChunksExact ==
  \A n \in DOMAIN collections :
    collections[n].metadata.total_chunks = Cardinality(DOMAIN collections[n].docs)

\* C28: within one run, chunks that differ in file_path, name or start_line
\* have different ids.
C28_DistinctChunksDistinctIds ==
  \A j \in DOMAIN tasks :
    \A i, m \in 1..Len(tasks[j].all_chunks) :
      LET c == tasks[j].all_chunks[i]
          d == tasks[j].all_chunks[m]
      IN  <<c.file_path, c.name, c.start_line>> # <<d.file_path, d.name, d.start_line>>
            => c.id # d.id

\* C30: when the store phase of a job ends with status completed, the
\* collection of the job's (repo, branch) exists and the job's user is one
\* of its tenants.
C30_CompletedStep ==
  \A j \in DOMAIN tasks :
    (StorePhase(j) /\ active_jobs'[j].status = "completed") =>
      /\ TargetOf(j) \in DOMAIN collections'
      /\ tasks[j].user_id \in Tenants(collections', TargetOf(j))

C30_CompletedHasCollection == [][C30_CompletedStep]_vars

\* job j has its final status
Terminal(j) ==
  /\ j \in DOMAIN active_jobs
  /\ active_jobs[j].status \in {"completed", "failed"}

\* C29: every job in the job table eventually has status completed or
\* failed, given that the event loop runs the ready tasks and that every
\* call returns or raises.
C29_EveryJobEnds ==
  \A j \in JobIds : (j \in DOMAIN active_jobs) ~> Terminal(j)

\* every job of a full job table has ended, one failed and one completed,
\* and the tasks are over
C29_Witness ==
  /\ DOMAIN active_jobs = JobIds
  /\ \A j \in JobIds : Terminal(j) /\ tasks[j].pc = "done"
  /\ \E j, k \in JobIds :
       active_jobs[j].status = "failed" /\ active_jobs[k].status = "completed"

(* --------------------------- claims on embed_batch --------------------- *)
\* C14: embed_batch given N chunks returns N pairs, pair i being the
\* (nlp, code) embedding of chunk i, for every N >= 0 and either backend.
C14_EmbedBatchLength ==
  ret.op = "embed" =>
    /\ ~ret.out.raised
    /\ Len(ret.out.pairs) = Len(ret.args.chunks)
    /\ \A i \in 1..Len(ret.args.chunks) :
         ret.out.pairs[i] = <<encode(textify(ret.args.chunks[i])),
                              encode(ret.args.chunks[i].code)>>

====
